---- MODULE Spec2Model ----
(***************************************************************************)
(* mac-system-ocr: the batch recognition engine of lib/ocr.mm              *)
(* (perform_ocr, perform_batch_ocr, perform_batch_ocr_from_buffers) and    *)
(* the N-API async bridge of lib/binding.c (the Recognize entry points,    *)
(* their execute steps and their completion callbacks).                    *)
(*                                                                         *)
(* Conventions.  A C pointer is either NULL or a record.  A C string is a  *)
(* record [chars |-> <<...>>] (a sequence of one-character strings) or, for*)
(* fixed messages, [msg |-> "..."].  Confidences and coordinates are       *)
(* integers in hundredths (0..100 stands for 0.0..1.0); a mean is kept as  *)
(* the exact fraction [num, den].                                          *)
(***************************************************************************)
EXTENDS Integers, Sequences, FiniteSets, TLC

VARIABLES
    api,            \* the entry point of this call
    args,           \* the arguments the caller passed (never written)
    pc,             \* position of the thread running the batch call
    i,              \* the dispatch loop's index
    sema,           \* value of the dispatch semaphore
    workers,        \* the blocks handed to dispatch_group_async
    batch_result,   \* the OCRBatchResult under construction
    slotWrites,     \* history: for each slot, the workers that wrote it
    bpc,            \* position of the async work of the N-API bridge
    work,           \* the work structure: error_message, result
    deferred,       \* the promise: settlement count, state, value
    ocr,            \* a direct call of perform_ocr: its environment and result
    heap            \* the blocks the bridge allocated for this call

vars == <<api, args, pc, i, sema, workers, batch_result, slotWrites,
          bpc, work, deferred, ocr, heap>>

(***************************************************************************)
(* Bounds and program constants                                            *)
(***************************************************************************)
MaxCount == 2

processorCount == 2

TopCandidateCount == 5

NewlineThresholdY == 10

DefaultMinConfidence == 0

NULL == [null |-> TRUE]

Msg(m) == [msg |-> m]

Str(s) == [chars |-> s]

\* a pointer to an array
Arr(elems) == [elems |-> elems]

\* the heap blocks of one call of the bridge, each "none" (not allocated),
\* "live", "freed", or "invalid free" (freed while not live)
Blocks == {"work", "input", "languages", "result", "error_message"}

\* the memory behind the caller's argument (the bytes of a Buffer, the
\* characters of a string): live for the whole call, owned by the caller
CallerInput == "caller input"

EmptyHeap ==
    [b \in Blocks \cup {CallerInput} |->
        IF b = CallerInput THEN "live" ELSE "none"]

malloc(h, b) == [h EXCEPT ![b] = "live"]

free(h, b) == [h EXCEPT ![b] = IF @ = "live" THEN "freed" ELSE "invalid free"]

OCR_RECOGNITION_LEVEL_FAST == 0

OCR_RECOGNITION_LEVEL_ACCURATE == 1

DEFAULT_OPTIONS ==
    [languages |-> "en-US",
     recognition_level |-> OCR_RECOGNITION_LEVEL_ACCURATE,
     min_confidence |-> DefaultMinConfidence]

DEFAULT_BATCH_OPTIONS ==
    [ocr_options |-> DEFAULT_OPTIONS, max_threads |-> 0, batch_size |-> 1]

Min(a, b) == IF a <= b THEN a ELSE b

(***************************************************************************)
(* Image Source Resolver                                                   *)
(***************************************************************************)
\* NSString lowercaseString on the extensions the model uses
lowercaseString(ext) ==
    CASE ext = "PNG" -> "png"
      [] ext = "JPG" -> "jpg"
      [] ext = "Tiff" -> "tiff"
      [] OTHER -> ext

isValidImageExtension(extension) ==
    lowercaseString(extension) \in {"jpg", "jpeg", "png", "tiff", "gif"}

\* A decoded image is a handle on the pixel content; the content is what the
\* recognition capability will see.
Image(content) == [regions |-> content]

\* faulty variant: the extension is looked at before the file system
CreateCGImageFromPathExtensionFirst(path) ==
    IF path = NULL
    THEN [image |-> NULL, error |-> Msg("Invalid parameters"), checks |-> <<>>]
    ELSE IF ~isValidImageExtension(lowercaseString(path.ext))
    THEN [image |-> NULL, error |-> Msg("Invalid image file extension"),
          checks |-> <<"extension">>]
    ELSE IF ~path.exists
    THEN [image |-> NULL, error |-> Msg("File does not exist"),
          checks |-> <<"extension", "exists">>]
    ELSE IF ~path.readable
    THEN [image |-> NULL, error |-> Msg("Failed to read image data"),
          checks |-> <<"extension", "exists", "read">>]
    ELSE IF ~path.container
    THEN [image |-> NULL, error |-> Msg("Failed to create image source"),
          checks |-> <<"extension", "exists", "read", "source">>]
    ELSE IF ~path.decodes
    THEN [image |-> NULL, error |-> Msg("Failed to create CGImage from source"),
          checks |-> <<"extension", "exists", "read", "source", "decode">>]
    ELSE [image |-> Image(path.content), error |-> NULL,
          checks |-> <<"extension", "exists", "read", "source", "decode">>]

\* path: NULL or [exists, ext, readable, container, decodes, content]
\* returns [image |-> NULL or an image, error |-> NULL or a message,
\* checks |-> the checks made on the file, in the order in which they ran]
CreateCGImageFromPath(path) ==
    IF path = NULL
    THEN [image |-> NULL, error |-> Msg("Invalid parameters"), checks |-> <<>>]
    ELSE IF ~path.exists
    THEN [image |-> NULL, error |-> Msg("File does not exist"),
          checks |-> <<"exists">>]
    ELSE IF ~isValidImageExtension(lowercaseString(path.ext))
    THEN [image |-> NULL, error |-> Msg("Invalid image file extension"),
          checks |-> <<"exists", "extension">>]
    ELSE IF ~path.readable
    THEN [image |-> NULL, error |-> Msg("Failed to read image data"),
          checks |-> <<"exists", "extension", "read">>]
    ELSE IF ~path.container
    THEN [image |-> NULL, error |-> Msg("Failed to create image source"),
          checks |-> <<"exists", "extension", "read", "source">>]
    ELSE IF ~path.decodes
    THEN [image |-> NULL, error |-> Msg("Failed to create CGImage from source"),
          checks |-> <<"exists", "extension", "read", "source", "decode">>]
    ELSE [image |-> Image(path.content), error |-> NULL,
          checks |-> <<"exists", "extension", "read", "source", "decode">>]

\* buf: [isNull, length, container, decodes, content]
CreateCGImageFromBuffer(buf) ==
    IF buf.isNull \/ buf.length = 0
    THEN [image |-> NULL, error |-> Msg("Invalid parameters")]
    ELSE IF ~buf.container
    THEN [image |-> NULL, error |-> Msg("Failed to create image source from buffer")]
    ELSE IF ~buf.decodes
    THEN [image |-> NULL, error |-> Msg("Failed to create CGImage from buffer source")]
    ELSE [image |-> Image(buf.content), error |-> NULL]

(***************************************************************************)
(* Recognition Invoker: perform_ocr                                        *)
(***************************************************************************)
\* [observation topCandidates:5]: at most the five best-ranked candidates
topCandidates(observation, n) ==
    SubSeq(observation.candidates, 1, Min(n, Len(observation.candidates)))

\* faulty variant: the best-ranked candidate is taken whatever its confidence
AcceptsAnyConfidence(candidate, min_confidence) == TRUE

\* the acceptance test of one candidate
MeetsMinConfidence(candidate, min_confidence) ==
    candidate.confidence >= min_confidence

\* faulty variant: the candidate of the highest confidence among those that
\* pass the acceptance test, whatever its rank
highestConfidenceCandidate(candidates, min_confidence) ==
    LET passing == {k \in DOMAIN candidates :
                        MeetsMinConfidence(candidates[k], min_confidence)}
    IN  IF passing = {} THEN NULL
        ELSE candidates[CHOOSE k \in passing : \A j \in passing :
                            candidates[k].confidence >= candidates[j].confidence]

\* the inner loop: the first candidate, in ranked order, that passes the
\* acceptance test; NULL (nil) when none does
RECURSIVE bestCandidate(_, _)
bestCandidate(candidates, min_confidence) ==
    IF candidates = <<>> THEN NULL
    ELSE IF MeetsMinConfidence(Head(candidates), min_confidence)
    THEN Head(candidates)
    ELSE bestCandidate(Tail(candidates), min_confidence)

\* faulty variant: a space whatever the position of the region
SeparatorAlwaysSpace(boundingBox) == <<" ">>

\* the separator appended before the text of a region
Separator(boundingBox) ==
    IF boundingBox.y < NewlineThresholdY THEN <<"\n">> ELSE <<" ">>

\* faulty variant: the confidence of an accepted candidate is added, and the
\* candidate counted, only when its text is not empty
AccumulateOnlyWithText(acc, observation, min_confidence) ==
    LET best == bestCandidate(topCandidates(observation, TopCandidateCount),
                              min_confidence)
    IN  IF best = NULL THEN acc
        ELSE IF Len(best.string) = 0
        THEN [acc EXCEPT !.accepted =
                Append(@, [candidate   |-> best,
                           boundingBox |-> observation.boundingBox])]
        ELSE [recognizedText   |-> acc.recognizedText
                                   \o (IF Len(acc.recognizedText) > 0
                                       THEN Separator(observation.boundingBox)
                                       ELSE <<>>)
                                   \o best.string,
              totalConfidence  |-> acc.totalConfidence + best.confidence,
              observationCount |-> acc.observationCount + 1,
              accepted         |-> Append(acc.accepted,
                                     [candidate   |-> best,
                                      boundingBox |-> observation.boundingBox])]

\* one iteration of the loop over the observations of the request
AccumulateObservation(acc, observation, min_confidence) ==
    LET best == bestCandidate(topCandidates(observation, TopCandidateCount),
                              min_confidence)
    IN  IF best = NULL THEN acc
        ELSE LET text == best.string
                 sep  == IF Len(acc.recognizedText) > 0
                         THEN Separator(observation.boundingBox)
                         ELSE <<>>
             IN  [recognizedText   |-> IF Len(text) > 0
                                       THEN acc.recognizedText \o sep \o text
                                       ELSE acc.recognizedText,
                  totalConfidence  |-> acc.totalConfidence + best.confidence,
                  observationCount |-> acc.observationCount + 1,
                  accepted         |-> Append(acc.accepted,
                                         [candidate   |-> best,
                                          boundingBox |-> observation.boundingBox])]

\* the completion handler of the text request: the loop over request.results
RECURSIVE RecognizeText(_, _, _)
RecognizeText(acc, observations, min_confidence) ==
    IF observations = <<>> THEN acc
    ELSE RecognizeText(
            AccumulateObservation(acc, Head(observations), min_confidence),
            Tail(observations), min_confidence)

EmptyAccumulator ==
    [recognizedText |-> <<>>, totalConfidence |-> 0, observationCount |-> 0,
     accepted |-> <<>>]

ZeroConfidence == [num |-> 0, den |-> 1]

\* the observations array of a result: one TextObservation per accepted
\* candidate, in traversal order
MakeObservations(accepted) ==
    [k \in 1..Len(accepted) |->
        [text       |-> Str(accepted[k].candidate.string),
         confidence |-> accepted[k].candidate.confidence,
         x          |-> accepted[k].boundingBox.x,
         y          |-> accepted[k].boundingBox.y,
         width      |-> accepted[k].boundingBox.width,
         height     |-> accepted[k].boundingBox.height]]

\* faulty variant: the total is divided by one more than the number of
\* accepted candidates
RollupOffByOne(totalConfidence, observationCount) ==
    [num |-> totalConfidence, den |-> observationCount + 1]

\* result->confidence = totalConfidence / observationCount, kept as an exact
\* fraction
Rollup(totalConfidence, observationCount) ==
    [num |-> totalConfidence, den |-> observationCount]

\* faulty variant: a failed result keeps a text next to its error
ErrorResultWithText(message) ==
    [error |-> message, text |-> Str(<<>>), confidence |-> ZeroConfidence,
     observations |-> <<>>]

\* a result that carries an error: no text, confidence 0.0
ErrorResult(message) ==
    [error |-> message, text |-> NULL, confidence |-> ZeroConfidence,
     observations |-> <<>>]

\* the end of perform_ocr: the text and the confidence of the result are
\* taken from what the request handler accumulated
AssembleResult(acc, env) ==
    IF acc.observationCount > 0
    THEN IF ~env.strdup
         THEN ErrorResult(Msg("Memory allocation failed for OCR text"))
         ELSE [error |-> NULL,
               text |-> Str(acc.recognizedText),
               confidence |-> Rollup(acc.totalConfidence, acc.observationCount),
               observations |-> MakeObservations(acc.accepted)]
    ELSE IF ~env.strdup
         THEN ErrorResult(Msg("Memory allocation failed for empty text"))
         ELSE [error |-> NULL, text |-> Str(<<>>),
               confidence |-> ZeroConfidence,
               observations |-> MakeObservations(acc.accepted)]

\* env says which of the environment's services succeed in this call:
\* malloc of the result, performRequests of the capability, strdup of the text
perform_ocr(image, options, env) ==
    IF ~env.malloc THEN NULL
    ELSE LET opts == IF options # NULL THEN options ELSE DEFAULT_OPTIONS IN
    IF image = NULL
    THEN ErrorResult(Msg("CGImage is required and cannot be NULL"))
    ELSE IF ~env.request
    THEN ErrorResult(Msg("performRequests failed"))
    ELSE AssembleResult(RecognizeText(EmptyAccumulator, image.regions,
                                      opts.min_confidence), env)

\* faulty variant: the request is performed before the image is looked at
InvokesCapabilityUnchecked(image, env) == env.malloc

\* whether a call of perform_ocr reaches performRequests: not when the result
\* could not be allocated, and not when the image is NULL
InvokesCapability(image, env) == env.malloc /\ image # NULL

Environments == [malloc : BOOLEAN, request : BOOLEAN, strdup : BOOLEAN]

(***************************************************************************)
(* Inputs                                                                  *)
(***************************************************************************)
Box(yy) == [x |-> 10, y |-> yy, width |-> 30, height |-> 8]

Candidate(s, c) == [string |-> s, confidence |-> c]

\* one region, one candidate
ContentA ==
    << [boundingBox |-> Box(50), candidates |-> <<Candidate(<<"A">>, 90)>>] >>

\* two regions; the first has a weak best-ranked candidate, the second lies
\* near the bottom edge
ContentB ==
    << [boundingBox |-> Box(50),
        candidates  |-> <<Candidate(<<"B">>, 40), Candidate(<<"8">>, 96)>>],
       [boundingBox |-> Box(5),
        candidates  |-> <<Candidate(<<"C">>, 70)>>] >>

PathTo(content) ==
    [exists |-> TRUE, ext |-> "png", readable |-> TRUE, container |-> TRUE,
     decodes |-> TRUE, content |-> content]

MissingPath == [PathTo(<<>>) EXCEPT !.exists = FALSE, !.ext = "jpg"]

PathInputs == {PathTo(ContentA), PathTo(ContentB), MissingPath}

BufferOf(content) ==
    [isNull |-> FALSE, length |-> 4, container |-> TRUE, decodes |-> TRUE,
     content |-> content]

GarbageBuffer == [BufferOf(<<>>) EXCEPT !.container = FALSE]

BufferInputs == {BufferOf(ContentA), BufferOf(ContentB), GarbageBuffer}

MinConfidenceInputs == {0, 95}

OptionInputs ==
    {[DEFAULT_OPTIONS EXCEPT !.min_confidence = c] : c \in MinConfidenceInputs}

BatchOptionInputs ==
    {NULL} \cup
    {[ocr_options |-> o, max_threads |-> t, batch_size |-> 1] :
        o \in OptionInputs, t \in {0, 1}}

SeqsUpTo(S, n) == UNION {[1..m -> S] : m \in 0..n}

DirectApis == {"perform_batch_ocr", "perform_batch_ocr_from_buffers"}

BatchBridgeApis == {"RecognizeBatch", "RecognizeBatchFromBuffer"}

SingleBridgeApis == {"Recognize", "RecognizeBuffer"}

UsesPaths(a) == a \in {"perform_batch_ocr", "RecognizeBatch", "Recognize"}

ItemInputs(a) == IF UsesPaths(a) THEN PathInputs ELSE BufferInputs

(***************************************************************************)
(* Bounded Batch Scheduler: perform_batch_ocr and                          *)
(* perform_batch_ocr_from_buffers                                          *)
(***************************************************************************)
\* the parameters of the running batch call
image_paths == IF api \in DirectApis THEN args.items ELSE work.items

lengths == IF api \in DirectApis THEN args.lengths ELSE work.lengths

count == IF api \in DirectApis THEN args.count ELSE work.count

options == IF api \in DirectApis THEN args.options ELSE work.options

getSystemThreadCount == processorCount

\* thread_count = opts->max_threads > 0 ? opts->max_threads : getSystemThreadCount()
thread_count(batch_options) ==
    LET opts == IF batch_options # NULL THEN batch_options
                ELSE DEFAULT_BATCH_OPTIONS
    IN  IF opts.max_threads > 0 THEN opts.max_threads ELSE getSystemThreadCount

ocr_options(batch_options) ==
    IF batch_options # NULL THEN batch_options.ocr_options
    ELSE DEFAULT_BATCH_OPTIONS.ocr_options

\* faulty variant: the early return tests the pointers but not the count
NoItemsProvidedNullOnly ==
    \/ image_paths = NULL
    \/ (~UsesPaths(api) /\ lengths = NULL)

\* the early return on an empty or null item list
NoItemsProvided ==
    \/ image_paths = NULL
    \/ (~UsesPaths(api) /\ lengths = NULL)
    \/ count = 0

NoItemsMessage ==
    IF UsesPaths(api) THEN Msg("No image paths provided")
    ELSE Msg("No image buffers provided")

\* the batch call returns result r to its caller; under the bridge the caller
\* is the execute step, which stores r in the work structure
ReturnToCaller(r) ==
    /\ pc' = "returned"
    /\ IF api \in DirectApis
       THEN UNCHANGED <<bpc, work, heap>>
       ELSE /\ bpc' = "executed"
            /\ work' = [work EXCEPT !.result = r]
            /\ heap' = IF r # NULL THEN malloc(heap, "result") ELSE heap

\* perform_batch_ocr up to the dispatch loop: allocation of the result, the
\* early return, allocation of the slots, creation of the semaphore.  Under
\* the bridge this is the start of ExecuteBatchOCR / ExecuteBatchBufferOCR.
BatchEnter ==
    /\ pc = "call"
    /\ api \in DirectApis \/ (api \in BatchBridgeApis /\ bpc = "queued")
    /\ \E alloc \in {"ok", "malloc_fails", "calloc_fails"} :
        IF alloc = "malloc_fails"
        THEN /\ batch_result' = NULL
             /\ ReturnToCaller(NULL)
             /\ UNCHANGED <<sema, slotWrites>>
        ELSE IF NoItemsProvided
        THEN /\ batch_result' = [error |-> NoItemsMessage, results |-> NULL,
                                 count |-> count, failed_count |-> 0]
             /\ ReturnToCaller(batch_result')
             /\ UNCHANGED <<sema, slotWrites>>
        ELSE IF alloc = "calloc_fails"
        THEN /\ batch_result' =
                    [error |-> Msg("Memory allocation failed for results array"),
                     results |-> NULL, count |-> count, failed_count |-> 0]
             /\ ReturnToCaller(batch_result')
             /\ UNCHANGED <<sema, slotWrites>>
        ELSE /\ batch_result' = [error |-> NULL,
                                 results |-> Arr([s \in 1..count |-> NULL]),
                                 count |-> count, failed_count |-> 0]
             /\ slotWrites' = [s \in 1..count |-> <<>>]
             /\ sema' = thread_count(options)
             /\ pc' = IF 0 < count THEN "dispatch" ELSE "join"
             /\ IF api \in DirectApis THEN UNCHANGED bpc
                ELSE bpc' = "executing"
             /\ UNCHANGED <<work, heap>>
    /\ UNCHANGED <<api, args, i, workers, deferred, ocr>>

\* faulty variant: the dispatch loop does not wait for a permit
PermitAlwaysAvailable(s) == TRUE

\* dispatch_semaphore_wait returns once a permit is available
PermitAvailable(s) == s > 0

\* one iteration of the dispatch loop: wait for a permit, capture the item
\* and its index, hand the block to the queue; after the last item the
\* caller goes on to dispatch_group_wait
Dispatch ==
    /\ pc = "dispatch"
    /\ i < count
    /\ PermitAvailable(sema)
    /\ sema' = sema - 1
    /\ workers' = Append(workers,
                    [wpc |-> "ready", current_index |-> i,
                     current |-> image_paths.elems[i + 1],
                     branch |-> "none", result |-> NULL,
                     image_calls |-> <<>>])
    /\ i' = i + 1
    /\ pc' = IF i + 1 < count THEN "dispatch" ELSE "join"
    /\ UNCHANGED <<api, args, batch_result, slotWrites, bpc, work, deferred, ocr, heap>>

\* faulty variant: the image of a pass that ended with an error is not
\* released
ImageCallsLeakingOnError(owner, image, result) ==
    IF image = NULL THEN <<>>
    ELSE IF result # NULL /\ result.error # NULL
    THEN << [call |-> "create", by |-> owner],
            [call |-> "perform_ocr", by |-> owner] >>
    ELSE << [call |-> "create", by |-> owner],
            [call |-> "perform_ocr", by |-> owner],
            [call |-> "CGImageRelease", by |-> owner] >>

\* what a block or an execute step does with the image it resolved, in the
\* order of its statements: nothing when no image was created, otherwise the
\* recognition pass and then the release, whatever the result of the pass.
\* The image is a local variable of its owner.
ImageCalls(owner, image, result) ==
    IF image = NULL THEN <<>>
    ELSE << [call |-> "create", by |-> owner],
            [call |-> "perform_ocr", by |-> owner],
            [call |-> "CGImageRelease", by |-> owner] >>

Resolve(item) ==
    IF UsesPaths(api) THEN CreateCGImageFromPath(item)
    ELSE CreateCGImageFromBuffer(item)

FallbackResolveMessage ==
    IF UsesPaths(api) THEN Msg("Failed to create image")
    ELSE Msg("Failed to create image from buffer")

\* faulty variant: results are stored in the order in which the blocks complete
SlotByCompletion(w) ==
    Cardinality({s \in DOMAIN slotWrites : slotWrites[s] # <<>>}) + 1

\* the slot a block writes: the index captured at dispatch
SlotOf(w) == workers[w].current_index + 1

\* faulty variant: the resolve-failure branch forgets to count its failure
CountsOnlyRecognitionFailure(branch, result) ==
    branch = "ok" /\ result # NULL /\ result.error # NULL

\* whether a stored result makes the block count a failure
CountsAsFailure(branch, result) ==
    \/ branch = "failed"
    \/ (result # NULL /\ result.error # NULL)

\* whether the block signals the semaphore before it returns
SignalsSemaphore(branch) ==
    \/ branch = "ok"
    \/ ~UsesPaths(api)

\* what the block computes for one item: on a resolve failure the error
\* result built in place, otherwise the result of perform_ocr (the image is
\* released right after)
ItemOutcome(item, batch_options, env) ==
    LET r == Resolve(item) IN
    IF r.image = NULL
    THEN [branch |-> "failed",
          result |-> ErrorResult(IF r.error # NULL THEN r.error
                                 ELSE FallbackResolveMessage)]
    ELSE [branch |-> "ok",
          result |-> perform_ocr(r.image, ocr_options(batch_options), env)]

\* the block up to the store into its slot
WorkerRun(w) ==
    /\ workers[w].wpc = "ready"
    /\ \E env \in Environments :
        LET out == ItemOutcome(workers[w].current, options, env) IN
        /\ batch_result' =
                [batch_result EXCEPT !.results.elems[SlotOf(w)] = out.result]
        /\ slotWrites' = [slotWrites EXCEPT ![SlotOf(w)] = Append(@, w)]
        /\ workers' = [workers EXCEPT
                ![w].branch = out.branch,
                ![w].result = out.result,
                ![w].image_calls =
                    ImageCalls(w, Resolve(workers[w].current).image, out.result),
                ![w].wpc = IF CountsAsFailure(out.branch, out.result)
                           THEN "stored" ELSE "counted"]
    /\ UNCHANGED <<api, args, pc, i, sema, bpc, work, deferred, ocr, heap>>

\* atomic_failed_count->fetch_add(1)
WorkerCount(w) ==
    /\ workers[w].wpc = "stored"
    /\ batch_result' = [batch_result EXCEPT !.failed_count = @ + 1]
    /\ workers' = [workers EXCEPT ![w].wpc = "counted"]
    /\ UNCHANGED <<api, args, pc, i, sema, slotWrites, bpc, work, deferred, ocr, heap>>

\* dispatch_semaphore_signal(sema)
WorkerSignal(w) ==
    /\ workers[w].wpc = "counted"
    /\ SignalsSemaphore(workers[w].branch)
    /\ sema' = sema + 1
    /\ workers' = [workers EXCEPT ![w].wpc = "signalled"]
    /\ UNCHANGED <<api, args, pc, i, batch_result, slotWrites, bpc, work, deferred, ocr, heap>>

\* the block returns and leaves the dispatch group
WorkerLeave(w) ==
    /\ \/ workers[w].wpc = "signalled"
       \/ (workers[w].wpc = "counted" /\ ~SignalsSemaphore(workers[w].branch))
    /\ workers' = [workers EXCEPT ![w].wpc = "done"]
    /\ UNCHANGED <<api, args, pc, i, sema, batch_result, slotWrites, bpc, work,
                   deferred, ocr, heap>>

\* faulty variant: the caller does not wait for the group
GroupNotAwaited == TRUE

\* dispatch_group_wait returns once every block has left the group
GroupEmpty == \A w \in DOMAIN workers : workers[w].wpc = "done"

\* dispatch_group_wait, then return batch_result
GroupWait ==
    /\ pc = "join"
    /\ GroupEmpty
    /\ ReturnToCaller(batch_result)
    /\ UNCHANGED <<api, args, i, sema, workers, batch_result, slotWrites, deferred, ocr>>

(***************************************************************************)
(* Async Bridge: lib/binding.c                                             *)
(***************************************************************************)
JsUndefined == [type |-> "undefined"]

JsNull == [type |-> "null"]

JsNumber(n) == [type |-> "number", v |-> n]

JsString(v) == [type |-> "string", v |-> v]

JsBuffer(v) == [type |-> "buffer", v |-> v]

JsArray(v) == [type |-> "array", v |-> v]

JsObject(v) == [type |-> "object", v |-> v]

JsError(message) == [type |-> "error", message |-> message]

LanguageInputs == {"en-US", "zh-Hans"}

\* the options object handed to the native entry points
JsOptionInputs ==
    {JsObject([languages |-> JsString(g),
               recognitionLevel |-> JsNumber(l),
               minConfidence |-> JsNumber(c)]) :
        g \in LanguageInputs,
        l \in {OCR_RECOGNITION_LEVEL_ACCURATE, 2}, c \in MinConfidenceInputs}

\* an options object whose minConfidence lies outside 0.0 .. 1.0
OutOfRangeConfidenceOptions ==
    JsObject([languages |-> JsString("en-US"),
              recognitionLevel |-> JsNumber(OCR_RECOGNITION_LEVEL_ACCURATE),
              minConfidence |-> JsNumber(200)])

JsBatchOptionInputs ==
    {JsObject([ocrOptions |-> o, maxThreads |-> JsNumber(t),
               batchSize |-> JsNumber(1)]) :
        o \in JsOptionInputs, t \in {0, 1}}

\* GetOptionsFromObject: [ok, options, allocated]; allocated says that
\* languages points to a copy made with malloc and not to the literal
GetOptionsFromObject(jsOptions) ==
    IF jsOptions.type # "object"
    THEN [ok |-> TRUE, options |-> DEFAULT_OPTIONS, allocated |-> FALSE]
    ELSE LET o == jsOptions.v
             langs == IF o.languages.type = "string" THEN o.languages.v
                      ELSE "en-US"
             levelGiven == o.recognitionLevel.type = "number"
             conf == IF o.minConfidence.type = "number" THEN o.minConfidence.v
                     ELSE DefaultMinConfidence
         IN  IF levelGiven
                /\ o.recognitionLevel.v # OCR_RECOGNITION_LEVEL_FAST
                /\ o.recognitionLevel.v # OCR_RECOGNITION_LEVEL_ACCURATE
             THEN [ok |-> FALSE,
                   options |-> [DEFAULT_OPTIONS EXCEPT !.languages = langs],
                   allocated |-> o.languages.type = "string"]
             ELSE [ok |-> TRUE,
                   allocated |-> o.languages.type = "string",
                   options |-> [languages |-> langs,
                                recognition_level |->
                                    IF levelGiven THEN o.recognitionLevel.v
                                    ELSE OCR_RECOGNITION_LEVEL_ACCURATE,
                                min_confidence |-> conf]]

\* GetBatchOptionsFromObject: [ok, options, allocated]
GetBatchOptionsFromObject(jsOptions) ==
    IF jsOptions.type # "object"
    THEN [ok |-> TRUE, options |-> DEFAULT_BATCH_OPTIONS, allocated |-> FALSE]
    ELSE LET o == jsOptions.v
             inner == GetOptionsFromObject(o.ocrOptions)
         IN  [ok |-> inner.ok,
              allocated |-> inner.allocated,
              options |->
                [ocr_options |-> inner.options,
                 max_threads |-> IF o.maxThreads.type = "number"
                                 THEN o.maxThreads.v ELSE 0,
                 batch_size |-> IF o.batchSize.type = "number"
                                THEN o.batchSize.v ELSE 1]]

PendingPromise == [state |-> "pending", settles |-> 0, value |-> JsUndefined]

\* napi_resolve_deferred / napi_reject_deferred; a promise keeps its first
\* settlement
Settle(d, op) ==
    [state   |-> IF d.settles = 0 THEN op.kind ELSE d.state,
     settles |-> d.settles + 1,
     value   |-> IF d.settles = 0 THEN op.value ELSE d.value]

RECURSIVE ApplySettlements(_, _)
ApplySettlements(d, ops) ==
    IF ops = <<>> THEN d
    ELSE ApplySettlements(Settle(d, Head(ops)), Tail(ops))

Reject(message) == [kind |-> "rejected", value |-> JsError(message)]

Resolve_(value) == [kind |-> "resolved", value |-> value]

\* faulty variant: the work structure keeps the caller's pointer
KeptCallerPointer(callerBlock) == callerBlock

\* the block the work structure points to for its input: a copy made with
\* malloc and memcpy (napi_get_value_string_utf8 for a path), never the
\* caller's own memory
CopiedInput(callerBlock) == "input"

\* the entry point's allocations: the work structure, the copy of the input
\* and, inside GetOptionsFromObject, the copy of the languages string
AllocateWork(h, languagesCopied) ==
    LET h1 == malloc(malloc(h, "work"), "input")
    IN  IF languagesCopied THEN malloc(h1, "languages") ELSE h1

\* the early return on "Invalid options": the copy of the input and the work
\* structure are freed
ReleaseOnInvalidOptions(h) ==
    free(free(h, CopiedInput(CallerInput)), "work")

\* the type test of the first argument
FirstArgumentAccepted ==
    CASE api = "Recognize" -> args.arg0.type = "string"
      [] api = "RecognizeBuffer" -> args.arg0.type = "buffer"
      [] OTHER -> args.arg0.type = "array"

\* Recognize / RecognizeBuffer: check the argument, create the promise, copy
\* the path or the buffer into the work structure, read the options, queue
\* the async work and return the promise; on a failed check throw instead
RecognizeEntry ==
    /\ bpc = "call"
    /\ api \in SingleBridgeApis
    /\ LET got == GetOptionsFromObject(args.options) IN
        IF ~FirstArgumentAccepted
        THEN /\ bpc' = "thrown"
             /\ UNCHANGED <<work, deferred, heap>>
        ELSE IF ~got.ok
        THEN /\ bpc' = "thrown"
             /\ heap' = ReleaseOnInvalidOptions(AllocateWork(heap, got.allocated))
             /\ UNCHANGED <<work, deferred>>
        ELSE /\ work' = [item |-> args.arg0.v, options |-> got.options,
                         result |-> NULL, error_message |-> NULL,
                         dereferenced |-> <<>>,
                         image_calls |-> <<>>,
                         input |-> CopiedInput(CallerInput),
                         freed |-> FALSE]
             /\ heap' = AllocateWork(heap, got.allocated)
             /\ deferred' = PendingPromise
             /\ bpc' = "queued"
    /\ UNCHANGED <<api, args, pc, i, sema, workers, batch_result, slotWrites, ocr>>

\* RecognizeBatch / RecognizeBatchFromBuffer: the same for an array; an empty
\* array is refused before any work is created
RecognizeBatchEntry ==
    /\ bpc = "call"
    /\ api \in BatchBridgeApis
    /\ LET got == GetBatchOptionsFromObject(args.options) IN
        IF ~FirstArgumentAccepted \/ Len(args.arg0.v) = 0
        THEN /\ bpc' = "thrown"
             /\ UNCHANGED <<work, deferred, heap>>
        ELSE IF ~got.ok
        THEN /\ bpc' = "thrown"
             /\ heap' = ReleaseOnInvalidOptions(AllocateWork(heap, got.allocated))
             /\ UNCHANGED <<work, deferred>>
        ELSE /\ heap' = AllocateWork(heap, got.allocated)
             /\ work' = [items |-> Arr([k \in 1..Len(args.arg0.v) |-> args.arg0.v[k].v]),
                         lengths |-> Arr([k \in 1..Len(args.arg0.v) |->
                                         IF UsesPaths(api) THEN 0
                                         ELSE args.arg0.v[k].v.length]),
                         count |-> Len(args.arg0.v),
                         options |-> got.options,
                         result |-> NULL, error_message |-> NULL,
                         dereferenced |-> <<>>,
                         input |-> CopiedInput(CallerInput),
                         freed |-> FALSE]
             /\ deferred' = PendingPromise
             /\ bpc' = "queued"
    /\ UNCHANGED <<api, args, pc, i, sema, workers, batch_result, slotWrites, ocr>>

FallbackExecuteMessage ==
    IF UsesPaths(api) THEN Msg("Failed to create image from path")
    ELSE Msg("Failed to create image from buffer")

\* ExecuteOCR / ExecuteBufferOCR: resolve the image; on failure leave the
\* message in the work structure, otherwise run perform_ocr and release the
\* image
ExecuteOCR ==
    /\ bpc = "queued"
    /\ api \in SingleBridgeApis
    /\ LET r == Resolve(work.item) IN
        IF r.image = NULL
        THEN /\ work' = [work EXCEPT !.error_message =
                            IF r.error # NULL THEN r.error
                            ELSE FallbackExecuteMessage]
             /\ heap' = malloc(heap, "error_message")
        ELSE \E env \in Environments :
                /\ work' = [work EXCEPT
                        !.result = perform_ocr(r.image, work.options, env),
                        !.image_calls =
                            ImageCalls("execute", r.image,
                                perform_ocr(r.image, work.options, env))]
                /\ heap' = IF work'.result # NULL THEN malloc(heap, "result")
                           ELSE heap
    /\ bpc' = "executed"
    /\ UNCHANGED <<api, args, pc, i, sema, workers, batch_result, slotWrites,
                   deferred, ocr>>

\* the object built for one TextObservation
ObservationToJs(obs) ==
    JsObject([text       |-> JsString(obs.text.chars),
              confidence |-> JsNumber(obs.confidence),
              x          |-> JsNumber(obs.x),
              y          |-> JsNumber(obs.y),
              width      |-> JsNumber(obs.width),
              height     |-> JsNumber(obs.height)])

\* faulty variant: the loop over the observations stops one short
ObservationsToJsOneShort(result) ==
    IF result # NULL /\ Len(result.observations) > 0
    THEN JsArray([k \in 1..(Len(result.observations) - 1) |->
                    ObservationToJs(result.observations[k])])
    ELSE JsArray(<<>>)

\* the observations array of a result as handed to JavaScript
ObservationsToJs(result) ==
    IF result # NULL /\ Len(result.observations) > 0
    THEN JsArray([k \in 1..Len(result.observations) |->
                    ObservationToJs(result.observations[k])])
    ELSE JsArray(<<>>)

\* the object built for one result: text (null when there is none),
\* confidence, observations
ResultToJs(result) ==
    JsObject([text |-> IF result # NULL /\ result.text # NULL
                       THEN result.text ELSE JsNull,
              confidence |-> IF result # NULL THEN result.confidence
                             ELSE ZeroConfidence,
              observations |-> ObservationsToJs(result)])

\* the settlement of CompleteOCR / CompleteBufferOCR
SingleSettlements(wk) ==
    IF wk.error_message # NULL
    THEN <<Reject(wk.error_message)>>
    ELSE IF wk.result # NULL /\ wk.result.error # NULL
    THEN <<Reject(wk.result.error)>>
    ELSE IF wk.result # NULL
    THEN <<Resolve_(ResultToJs(wk.result))>>
    ELSE <<Reject(Msg("Unknown error occurred"))>>

\* the array built by CompleteBatchOCR / CompleteBatchBufferOCR
BatchToJs(batch) ==
    JsArray([k \in 1..batch.count |-> ResultToJs(batch.results.elems[k])])

\* the settlement of CompleteBatchOCR / CompleteBatchBufferOCR
BatchSettlements(wk) ==
    IF wk.error_message # NULL
    THEN <<Reject(wk.error_message)>>
    ELSE IF wk.result # NULL /\ wk.result.error # NULL
    THEN <<Reject(wk.result.error)>>
    ELSE IF wk.result # NULL
    THEN <<Resolve_(BatchToJs(wk.result))>>
    ELSE <<Reject(Msg("Unknown error occurred"))>>

\* one dereference of a pointer, with whether the pointer was NULL
Deref(pointer, value) == [pointer |-> pointer, null |-> value = NULL]

\* the pointers CompleteOCR / CompleteBufferOCR dereferences, in the branch
\* it takes
DereferencedByCompleteOCR(wk) ==
    IF wk.error_message # NULL
    THEN <<Deref("work->error_message", wk.error_message)>>
    ELSE IF wk.result # NULL /\ wk.result.error # NULL
    THEN <<Deref("work->result", wk.result),
           Deref("work->result->error", wk.result.error)>>
    ELSE IF wk.result # NULL
    THEN <<Deref("work->result", wk.result)>>
         \o (IF wk.result.text # NULL
             THEN <<Deref("work->result->text", wk.result.text)>> ELSE <<>>)
    ELSE <<>>

\* the slots of a results array that the loops of the completion callback
\* and of free_ocr_batch_result dereference: those that are not NULL
DereferencedSlots(results) ==
    LET slots == [k \in DOMAIN results.elems |->
                    Deref("work->result->results[i]", results.elems[k])]
    IN  SelectSeq(slots, LAMBDA d : ~d.null)

\* faulty variant: the callback has no branch for a batch-level error and
\* builds the array from every result that is not NULL
DereferencedIgnoringBatchError(wk) ==
    IF wk.error_message # NULL
    THEN <<Deref("work->error_message", wk.error_message)>>
    ELSE IF wk.result # NULL
    THEN <<Deref("work->result", wk.result)>>
         \o (IF wk.result.count > 0
             THEN <<Deref("work->result->results", wk.result.results)>>
             ELSE <<>>)
         \o (IF wk.result.results # NULL
             THEN DereferencedSlots(wk.result.results) ELSE <<>>)
    ELSE <<>>

\* the pointers CompleteBatchOCR / CompleteBatchBufferOCR and the
\* free_ocr_batch_result of its cleanup dereference, in the branch taken
DereferencedByCompleteBatchOCR(wk) ==
    IF wk.error_message # NULL
    THEN <<Deref("work->error_message", wk.error_message)>>
    ELSE IF wk.result # NULL /\ wk.result.error # NULL
    THEN <<Deref("work->result", wk.result),
           Deref("work->result->error", wk.result.error)>>
         \o (IF wk.result.results # NULL
             THEN DereferencedSlots(wk.result.results) ELSE <<>>)
    ELSE IF wk.result # NULL
    THEN <<Deref("work->result", wk.result)>>
         \o (IF wk.result.count > 0
             THEN <<Deref("work->result->results", wk.result.results)>>
             ELSE <<>>)
         \o (IF wk.result.results # NULL
             THEN DereferencedSlots(wk.result.results) ELSE <<>>)
    ELSE <<>>

\* the cleanup's test before it frees the languages string:
\* languages && strcmp(languages, "en-US") != 0
ReleasesLanguages(languages) == languages # "en-US"

\* the frees of a completion callback: the error message in the branch that
\* reports it, then the result, the copy of the input, the languages string
\* and the work structure
ReleaseWork(h, wk, languages) ==
    LET h1 == IF wk.error_message # NULL THEN free(h, "error_message") ELSE h
        h2 == IF wk.result # NULL THEN free(h1, "result") ELSE h1
        h3 == free(h2, wk.input)
        h4 == IF ReleasesLanguages(languages) THEN free(h3, "languages") ELSE h3
    IN  free(h4, "work")

\* the completion callback: settle the promise, then free the result, the
\* copied inputs and the work structure
CompleteOCR ==
    /\ bpc = "executed"
    /\ api \in SingleBridgeApis
    /\ deferred' = ApplySettlements(deferred, SingleSettlements(work))
    /\ work' = [work EXCEPT !.freed = TRUE,
                            !.dereferenced = DereferencedByCompleteOCR(work)]
    /\ heap' = ReleaseWork(heap, work, work.options.languages)
    /\ bpc' = "completed"
    /\ UNCHANGED <<api, args, pc, i, sema, workers, batch_result, slotWrites, ocr>>

CompleteBatchOCR ==
    /\ bpc = "executed"
    /\ api \in BatchBridgeApis
    /\ deferred' = ApplySettlements(deferred, BatchSettlements(work))
    /\ work' = [work EXCEPT !.freed = TRUE,
                            !.dereferenced = DereferencedByCompleteBatchOCR(work)]
    /\ heap' = ReleaseWork(heap, work, work.options.ocr_options.languages)
    /\ bpc' = "completed"
    /\ UNCHANGED <<api, args, pc, i, sema, workers, batch_result, slotWrites, ocr>>

(***************************************************************************)
(* The calls                                                               *)
(***************************************************************************)
DirectArgs(a) ==
    {[items |-> its, lengths |-> ls, count |-> n, options |-> o] :
        its \in {NULL}, ls \in {NULL, Msg("lengths")}, n \in {0, 1},
        o \in BatchOptionInputs}
    \cup
    {[items |-> Arr(its), lengths |-> ls, count |-> Len(its), options |-> o] :
        its \in SeqsUpTo(ItemInputs(a), MaxCount),
        ls \in IF UsesPaths(a) THEN {NULL} ELSE {NULL, Msg("lengths")},
        o \in BatchOptionInputs}

WrapItem(a, item) == IF UsesPaths(a) THEN JsString(item) ELSE JsBuffer(item)

SingleArgs(a) ==
    [arg0 : {WrapItem(a, it) : it \in ItemInputs(a)} \cup {JsNumber(123)},
     options : {JsUndefined} \cup JsOptionInputs
               \cup {OutOfRangeConfidenceOptions}]

BatchArgs(a) ==
    [arg0 : {JsArray([k \in DOMAIN its |-> WrapItem(a, its[k])]) :
                its \in SeqsUpTo(ItemInputs(a), MaxCount)}
            \cup {JsNumber(123)},
     options : {JsUndefined} \cup JsBatchOptionInputs]

ArgsOf(a) ==
    IF a \in DirectApis THEN DirectArgs(a)
    ELSE IF a \in SingleBridgeApis THEN SingleArgs(a)
    ELSE BatchArgs(a)

Init ==
    /\ api \in DirectApis \cup SingleBridgeApis \cup BatchBridgeApis
    /\ args \in ArgsOf(api)
    /\ pc = "call"
    /\ i = 0
    /\ sema = 0
    /\ workers = <<>>
    /\ batch_result = NULL
    /\ slotWrites = <<>>
    /\ bpc = IF api \in DirectApis THEN "none" ELSE "call"
    /\ work = NULL
    /\ deferred = NULL
    /\ ocr = NULL
    /\ heap = EmptyHeap

Next ==
    \/ BatchEnter
    \/ Dispatch
    \/ \E w \in DOMAIN workers : WorkerRun(w)
    \/ \E w \in DOMAIN workers : WorkerCount(w)
    \/ \E w \in DOMAIN workers : WorkerSignal(w)
    \/ \E w \in DOMAIN workers : WorkerLeave(w)
    \/ GroupWait
    \/ RecognizeEntry
    \/ RecognizeBatchEntry
    \/ ExecuteOCR
    \/ CompleteOCR
    \/ CompleteBatchOCR

Spec == Init /\ [][Next]_vars

\* the event loop runs queued work and its completion callback, and the
\* dispatch queue runs every block it was given: a step that can be taken
\* is eventually taken
FairSpec == Spec /\ WF_vars(Next)

(***************************************************************************)
(* perform_ocr on its own: the inputs are drawn from bounded sets           *)
(***************************************************************************)
MaxRegions == 2

\* a region whose only strong candidate is ranked after the ones the handler
\* asks for
BeyondTopCandidates ==
    [k \in 1..(TopCandidateCount + 1) |->
        IF k <= TopCandidateCount THEN Candidate(<<"a">>, 30)
        ELSE Candidate(<<"b">>, 70)]

CandidateListInputs ==
    { <<Candidate(<<"a">>, 30)>>,
      <<Candidate(<<"a">>, 30), Candidate(<<"b">>, 70)>>,
      <<Candidate(<<"b">>, 70), Candidate(<<"a">>, 30)>>,
      <<Candidate(<<>>, 70)>>,
      BeyondTopCandidates }

RegionInputs ==
    {[boundingBox |-> Box(yy), candidates |-> cs] :
        yy \in {5, 50}, cs \in CandidateListInputs}

ImageInputs == {Image(rs) : rs \in SeqsUpTo(RegionInputs, MaxRegions)}

OcrOptionInputs ==
    {NULL} \cup {[DEFAULT_OPTIONS EXCEPT !.min_confidence = c] : c \in {0, 70, 95}}

InitOcr ==
    /\ api = "perform_ocr"
    /\ args \in [image : ImageInputs \cup {NULL}, options : OcrOptionInputs]
    /\ pc = "call"
    /\ i = 0
    /\ sema = 0
    /\ workers = <<>>
    /\ batch_result = NULL
    /\ slotWrites = <<>>
    /\ bpc = "none"
    /\ work = NULL
    /\ deferred = NULL
    /\ ocr = NULL
    /\ heap = EmptyHeap

\* one call of perform_ocr; the accepted candidates of the request handler
\* are kept next to the result
PerformOcrCall ==
    /\ api = "perform_ocr"
    /\ pc = "call"
    /\ \E env \in Environments :
        ocr' = [env |-> env,
                result |-> perform_ocr(args.image, args.options, env),
                invoked |-> InvokesCapability(args.image, env),
                accepted |->
                    IF args.image = NULL \/ ~env.malloc \/ ~env.request
                    THEN <<>>
                    ELSE RecognizeText(EmptyAccumulator, args.image.regions,
                            IF args.options # NULL
                            THEN args.options.min_confidence
                            ELSE DEFAULT_OPTIONS.min_confidence).accepted]
    /\ pc' = "returned"
    /\ UNCHANGED <<api, args, i, sema, workers, batch_result, slotWrites, bpc,
                   work, deferred, heap>>

NextOcr == PerformOcrCall

SpecOcr == InitOcr /\ [][NextOcr]_vars

(***************************************************************************)
(* A single call by path through the bridge, over every state of the file  *)
(***************************************************************************)
ResolverPathInputs ==
    {[exists |-> e, ext |-> x, readable |-> r, container |-> k, decodes |-> d,
      content |-> ContentA] :
        e \in BOOLEAN, x \in {"png", "PNG", "bmp", "txt"},
        r \in BOOLEAN, k \in BOOLEAN, d \in BOOLEAN}

InitResolver ==
    /\ api = "Recognize"
    /\ args \in [arg0 : {WrapItem(api, f) : f \in ResolverPathInputs},
                 options : {JsUndefined} \cup JsOptionInputs]
    /\ pc = "call"
    /\ i = 0
    /\ sema = 0
    /\ workers = <<>>
    /\ batch_result = NULL
    /\ slotWrites = <<>>
    /\ bpc = "call"
    /\ work = NULL
    /\ deferred = NULL
    /\ ocr = NULL
    /\ heap = EmptyHeap

NextResolver ==
    \/ RecognizeEntry
    \/ ExecuteOCR
    \/ CompleteOCR

SpecResolver == InitResolver /\ [][NextResolver]_vars

(***************************************************************************)
(* Two concurrent passes of perform_ocr over one decoded image, each       *)
(* stepping through the regions in its request handler                     *)
(***************************************************************************)
Passes == {1, 2}

\* faulty variant: the accumulator is shared by all passes, as static
\* variables would be
AccumulatorOfFirstPass(p) == 1

\* the accumulator a pass writes: its own __block variables recognizedText,
\* totalConfidence and observationCount
AccumulatorOf(p) == p

InitPasses ==
    /\ api = "perform_ocr"
    /\ args \in [image : ImageInputs, options : OcrOptionInputs]
    /\ pc = "passes"
    /\ i = 0
    /\ sema = 0
    /\ workers = [p \in Passes |->
                    [next |-> 1, acc |-> EmptyAccumulator, result |-> NULL]]
    /\ batch_result = NULL
    /\ slotWrites = <<>>
    /\ bpc = "none"
    /\ work = NULL
    /\ deferred = NULL
    /\ ocr = NULL
    /\ heap = EmptyHeap

\* the min_confidence both passes run with
PassMinConfidence ==
    IF args.options # NULL THEN args.options.min_confidence
    ELSE DEFAULT_OPTIONS.min_confidence

\* one iteration of the handler's loop in pass p
PassStep(p) ==
    /\ pc = "passes"
    /\ workers[p].result = NULL
    /\ workers[p].next <= Len(args.image.regions)
    /\ workers' = [workers EXCEPT
            ![AccumulatorOf(p)].acc =
                AccumulateObservation(@, args.image.regions[workers[p].next],
                                      PassMinConfidence),
            ![p].next = @ + 1]
    /\ UNCHANGED <<api, args, pc, i, sema, batch_result, slotWrites, bpc, work,
                   deferred, ocr, heap>>

\* pass p builds its result once its handler has seen every region
PassFinish(p) ==
    /\ pc = "passes"
    /\ workers[p].result = NULL
    /\ workers[p].next > Len(args.image.regions)
    /\ workers' = [workers EXCEPT ![p].result =
            AssembleResult(workers[AccumulatorOf(p)].acc,
                           [malloc |-> TRUE, request |-> TRUE, strdup |-> TRUE])]
    /\ UNCHANGED <<api, args, pc, i, sema, batch_result, slotWrites, bpc, work,
                   deferred, ocr, heap>>

NextPasses == \E p \in Passes : PassStep(p) \/ PassFinish(p)

SpecPasses == InitPasses /\ [][NextPasses]_vars

(***************************************************************************)
(* JavaScript wrapper: MacOCR.recognizeBatchFromPath                       *)
(***************************************************************************)
\* an Error or TypeError thrown inside the async function
WrapperError(name, text) == [type |-> "error", name |-> name, message |-> Msg(text)]

\* obj?.field: undefined when obj is not an object or has no such property
Get(obj, field) ==
    IF obj.type = "object" /\ field \in DOMAIN obj.v THEN obj.v[field]
    ELSE JsUndefined

\* the values JavaScript treats as false in a || b
Falsy(v) ==
    \/ v.type \in {"undefined", "null"}
    \/ (v.type = "number" /\ v.v = 0)
    \/ (v.type = "string" /\ v.v = "")

\* a || d
OrDefault(v, d) == IF Falsy(v) THEN d ELSE v

\* a ?? d
NullishDefault(v, d) == IF v.type \in {"undefined", "null"} THEN d ELSE v

\* path.extname(imagePath): the extension with its dot, "" when there is none
extname(imagePath) == IF imagePath.ext = "" THEN "" ELSE "." \o imagePath.ext

\* String.prototype.toLowerCase on the extensions the model uses
toLowerCase(ext) ==
    CASE ext = ".PNG" -> ".png"
      [] ext = ".JPG" -> ".jpg"
      [] ext = ".Tiff" -> ".tiff"
      [] OTHER -> ext

validExts == {".jpg", ".jpeg", ".png", ".tiff", ".tif", ".gif", ".bmp", ".webp"}

\* the checks of one item of the loop; NULL when the item passes
CheckImagePath(item) ==
    IF item.type # "string"
    THEN WrapperError("TypeError", "Each image path must be a string")
    ELSE IF ~item.v.exists
    THEN WrapperError("Error", "Image file does not exist")
    ELSE IF toLowerCase(extname(item.v)) \notin validExts
    THEN WrapperError("Error", "Unsupported image format")
    ELSE NULL

\* faulty variant: only the first item is checked
CheckFirstImagePathOnly(items) ==
    IF items = <<>> THEN NULL ELSE CheckImagePath(Head(items))

\* the loop over imagePaths: the error of the first item that fails a check
RECURSIVE CheckEachImagePath(_)
CheckEachImagePath(items) ==
    IF items = <<>> THEN NULL
    ELSE IF CheckImagePath(Head(items)) # NULL THEN CheckImagePath(Head(items))
    ELSE CheckEachImagePath(Tail(items))

\* the checks of the imagePaths argument; NULL when it passes
CheckImagePaths(imagePaths) ==
    IF imagePaths.type # "array"
    THEN WrapperError("TypeError", "Image paths must be an array")
    ELSE IF Len(imagePaths.v) = 0
    THEN WrapperError("Error", "Image paths array cannot be empty")
    ELSE CheckEachImagePath(imagePaths.v)

\* normalizedOptions
NormalizeBatchOptions(opts) ==
    [ocrOptions |->
        [languages |-> OrDefault(Get(Get(opts, "ocrOptions"), "languages"),
                                 JsString("en-US")),
         recognitionLevel |->
            NullishDefault(Get(Get(opts, "ocrOptions"), "recognitionLevel"),
                           JsNumber(OCR_RECOGNITION_LEVEL_ACCURATE)),
         minConfidence |-> OrDefault(Get(Get(opts, "ocrOptions"), "minConfidence"),
                                     JsNumber(0))],
     maxThreads |-> OrDefault(Get(opts, "maxThreads"), JsNumber(0)),
     batchSize |-> OrDefault(Get(opts, "batchSize"), JsNumber(1))]

\* the checks of the normalized options; NULL when they pass
CheckBatchOptions(n) ==
    IF n.ocrOptions.recognitionLevel \notin
            {JsNumber(OCR_RECOGNITION_LEVEL_FAST), JsNumber(OCR_RECOGNITION_LEVEL_ACCURATE)}
    THEN WrapperError("Error", "Recognition level must be MacOCR.RECOGNITION_LEVEL_FAST or MacOCR.RECOGNITION_LEVEL_ACCURATE")
    ELSE IF n.ocrOptions.minConfidence.v < 0 \/ n.ocrOptions.minConfidence.v > 100
    THEN WrapperError("Error", "Minimum confidence must be between 0.0 and 1.0")
    ELSE IF n.maxThreads.v < 0
    THEN WrapperError("Error", "Maximum threads must be greater than or equal to 0")
    ELSE IF n.batchSize.v < 1
    THEN WrapperError("Error", "Batch size must be greater than 0")
    ELSE NULL

\* the files the wrapper is asked about
WrapperPathInputs ==
    {[PathTo(ContentA) EXCEPT !.exists = e, !.ext = x] :
        e \in BOOLEAN, x \in {"png", "PNG", "bmp", "txt"}}

WrapperItemInputs == {JsString(f) : f \in WrapperPathInputs} \cup {JsNumber(7)}

WrapperImagePathsInputs ==
    {JsArray(its) : its \in SeqsUpTo(WrapperItemInputs, MaxCount)}
    \cup {JsString("not-an-array"), JsNumber(123), JsNull}

WrapperOcrOptionInputs ==
    {JsUndefined,
     JsObject([recognitionLevel |-> JsNumber(2)]),
     JsObject([minConfidence |-> JsNumber(150)]),
     JsObject([languages |-> JsString("zh-Hans"),
               recognitionLevel |-> JsNumber(OCR_RECOGNITION_LEVEL_FAST),
               minConfidence |-> JsNumber(50)])}

WrapperBatchOptionInputs ==
    {JsUndefined} \cup
    {JsObject([ocrOptions |-> o, maxThreads |-> t, batchSize |-> b]) :
        o \in WrapperOcrOptionInputs,
        t \in {JsUndefined, JsNumber(-1), JsNumber(0), JsNumber(2)},
        b \in {JsUndefined, JsNumber(-1), JsNumber(0), JsNumber(2)}}

InitWrapper ==
    /\ api = "recognizeBatchFromPath"
    /\ args \in [imagePaths : WrapperImagePathsInputs,
                 options : WrapperBatchOptionInputs]
    /\ pc = "call"
    /\ i = 0
    /\ sema = 0
    /\ workers = <<>>
    /\ batch_result = NULL
    /\ slotWrites = <<>>
    /\ bpc = "call"
    /\ work = NULL
    /\ deferred = PendingPromise
    /\ ocr = NULL
    /\ heap = EmptyHeap

\* the checks of imagePaths; a throw inside the async function rejects the
\* promise it returned
ValidateImagePaths ==
    /\ api = "recognizeBatchFromPath"
    /\ bpc = "call"
    /\ LET e == CheckImagePaths(args.imagePaths) IN
        IF e # NULL
        THEN /\ deferred' = Settle(deferred, [kind |-> "rejected", value |-> e])
             /\ bpc' = "rejected"
        ELSE /\ bpc' = "paths valid"
             /\ UNCHANGED deferred
    /\ UNCHANGED <<api, args, pc, i, sema, workers, batch_result, slotWrites,
                   work, ocr, heap>>

\* the normalization of the options (options = {} when undefined) and the
\* checks of the normalized options
ValidateBatchOptions ==
    /\ api = "recognizeBatchFromPath"
    /\ bpc = "paths valid"
    /\ LET n == NormalizeBatchOptions(IF args.options.type = "undefined"
                                      THEN JsObject(<<>>) ELSE args.options)
           e == CheckBatchOptions(n)
       IN  IF e # NULL
           THEN /\ deferred' = Settle(deferred, [kind |-> "rejected", value |-> e])
                /\ bpc' = "rejected"
                /\ UNCHANGED work
           ELSE /\ bpc' = "options valid"
                /\ work' = [normalizedOptions |-> n, nativeCalls |-> 0]
                /\ UNCHANGED deferred
    /\ UNCHANGED <<api, args, pc, i, sema, workers, batch_result, slotWrites,
                   ocr, heap>>

\* await recognizeBatch(imagePaths, normalizedOptions)
CallNativeRecognizeBatch ==
    /\ api = "recognizeBatchFromPath"
    /\ bpc = "options valid"
    /\ work' = [work EXCEPT !.nativeCalls = @ + 1]
    /\ bpc' = "awaiting native"
    /\ UNCHANGED <<api, args, pc, i, sema, workers, batch_result, slotWrites,
                   deferred, ocr, heap>>

\* the native promise settles: its results are returned, its error is
\* rethrown as "Batch OCR failed: ..."
NativeRecognizeBatchSettles ==
    /\ api = "recognizeBatchFromPath"
    /\ bpc = "awaiting native"
    /\ \E outcome \in {"resolved", "rejected"} :
        /\ deferred' = Settle(deferred,
                IF outcome = "resolved"
                THEN Resolve_(JsArray(<<>>))
                ELSE [kind |-> "rejected",
                      value |-> WrapperError("Error", "Batch OCR failed")])
        /\ bpc' = outcome
    /\ UNCHANGED <<api, args, pc, i, sema, workers, batch_result, slotWrites,
                   work, ocr, heap>>

NextWrapper ==
    \/ ValidateImagePaths
    \/ ValidateBatchOptions
    \/ CallNativeRecognizeBatch
    \/ NativeRecognizeBatchSettles

SpecWrapper == InitWrapper /\ [][NextWrapper]_vars

(***************************************************************************)
(* The two validation layers of a path: the wrapper's checks, then the     *)
(* native resolver                                                         *)
(***************************************************************************)
\* validExts of recognizeFromPath; its last entry has no dot
validExtsSingle ==
    {".jpg", ".jpeg", ".png", ".tiff", ".tif", ".gif", ".bmp", "webp"}

\* the checks of imagePath in recognizeFromPath; NULL when it passes
CheckSingleImagePath(item) ==
    IF item.type # "string"
    THEN WrapperError("TypeError", "Image path must be a string")
    ELSE IF ~item.v.exists
    THEN WrapperError("Error", "Image file does not exist")
    ELSE IF toLowerCase(extname(item.v)) \notin validExtsSingle
    THEN WrapperError("Error", "Unsupported image format")
    ELSE NULL

ExtensionInputs ==
    {"png", "PNG", "jpg", "jpeg", "tiff", "tif", "gif", "bmp", "webp", "txt", ""}

LayerPathInputs ==
    {[exists |-> e, ext |-> x, readable |-> r, container |-> TRUE,
      decodes |-> d, content |-> ContentA] :
        e \in BOOLEAN, x \in ExtensionInputs, r \in BOOLEAN, d \in BOOLEAN}

WrapperPathApis == {"recognizeFromPath", "recognizeBatchFromPath"}

InitLayers ==
    /\ api \in WrapperPathApis
    /\ args \in [imagePath : {JsString(f) : f \in LayerPathInputs}]
    /\ pc = "layers"
    /\ i = 0
    /\ sema = 0
    /\ workers = <<>>
    /\ batch_result = NULL
    /\ slotWrites = <<>>
    /\ bpc = "call"
    /\ work = NULL
    /\ deferred = PendingPromise
    /\ ocr = NULL
    /\ heap = EmptyHeap

\* the wrapper's checks of the path, in recognizeFromPath or in the loop of
\* recognizeBatchFromPath; a throw rejects the promise
WrapperValidatePath ==
    /\ pc = "layers"
    /\ bpc = "call"
    /\ LET e == IF api = "recognizeFromPath"
                THEN CheckSingleImagePath(args.imagePath)
                ELSE CheckImagePath(args.imagePath)
       IN  IF e # NULL
           THEN /\ deferred' = Settle(deferred, [kind |-> "rejected", value |-> e])
                /\ bpc' = "rejected"
           ELSE /\ bpc' = "passed"
                /\ UNCHANGED deferred
    /\ UNCHANGED <<api, args, pc, i, sema, workers, batch_result, slotWrites,
                   work, ocr, heap>>

\* the native side resolves the path the wrapper passed on
NativeResolvePath ==
    /\ pc = "layers"
    /\ bpc = "passed"
    /\ work' = CreateCGImageFromPath(args.imagePath.v)
    /\ bpc' = "resolved"
    /\ UNCHANGED <<api, args, pc, i, sema, workers, batch_result, slotWrites,
                   deferred, ocr, heap>>

NextLayers ==
    \/ WrapperValidatePath
    \/ NativeResolvePath

SpecLayers == InitLayers /\ [][NextLayers]_vars

(***************************************************************************)
(* Properties                                                              *)
(***************************************************************************)
BatchStep ==
    \/ Dispatch
    \/ \E w \in DOMAIN workers :
        WorkerRun(w) \/ WorkerCount(w) \/ WorkerSignal(w) \/ WorkerLeave(w)
    \/ GroupWait

SlotsAllocated == batch_result # NULL /\ batch_result.results # NULL

Slots == batch_result.results.elems

ResolveFails(item) == Resolve(item).image = NULL

\* C1: a batch call is never blocked by failing items: while the call has
\* not returned, the dispatch loop, some block or the final wait can take a
\* step; and on return each item whose resolution fails has an error in its
\* own slot.
C1_NeverBlockedByFailures ==
    /\ pc \in {"dispatch", "join"} => ENABLED BatchStep
    /\ (pc = "returned" /\ SlotsAllocated) =>
            \A s \in 1..count :
                ResolveFails(image_paths.elems[s]) =>
                    (Slots[s] # NULL /\ Slots[s].error # NULL)

\* the blocks that were dispatched and have not yet given their permit back
\* or returned
ActiveWorkers ==
    {w \in DOMAIN workers : workers[w].wpc \in {"ready", "stored", "counted"}}

\* C2: at most thread_count blocks are active at any time, and the semaphore
\* never goes below zero (no item is dispatched without a permit).
C2_ConcurrencyBound ==
    workers # <<>> =>
        /\ Cardinality(ActiveWorkers) <= thread_count(options)
        /\ sema >= 0
        /\ sema <= thread_count(options)

\* C2 witness: the gate is full and the dispatch loop waits with items left.
C2_GateFull ==
    /\ workers # <<>>
    /\ pc = "dispatch"
    /\ i < count
    /\ sema = 0
    /\ Cardinality(ActiveWorkers) = thread_count(options)

\* C3: every block keeps the index and the item captured at dispatch, and
\* every written slot holds the outcome of processing the input item of the
\* same index, whatever the order in which the blocks ran.
C3_IndexAlignment ==
    SlotsAllocated =>
        /\ \A w \in DOMAIN workers :
            /\ workers[w].current_index = w - 1
            /\ workers[w].current = image_paths.elems[w]
        /\ \A s \in 1..count :
            slotWrites[s] # <<>> =>
                \E env \in Environments :
                    Slots[s] = ItemOutcome(image_paths.elems[s], options, env).result

\* C3 witness: the second item's slot is filled with a successful result
\* while the first item, a different image, has not been processed yet.
C3_OutOfOrderCompletion ==
    /\ SlotsAllocated
    /\ count = 2
    /\ image_paths.elems[1] # image_paths.elems[2]
    /\ ~ResolveFails(image_paths.elems[1])
    /\ slotWrites[1] = <<>>
    /\ slotWrites[2] # <<>>
    /\ Slots[2] # NULL /\ Slots[2].error = NULL

\* C4: when the batch call has returned every dispatched block has left the
\* group, and from then on no slot and no counter is written.
C4_ReturnsAfterAllWorkers ==
    /\ [](pc = "returned" =>
            /\ \A w \in DOMAIN workers : workers[w].wpc = "done"
            /\ SlotsAllocated => Len(workers) = count)
    /\ [][pc = "returned" =>
            (batch_result' = batch_result /\ workers' = workers
             /\ slotWrites' = slotWrites)]_vars

\* C4 witness: a returned batch of two items, one failed and one succeeded.
C4_ReturnedMixedBatch ==
    /\ pc = "returned"
    /\ SlotsAllocated
    /\ Len(workers) = 2
    /\ batch_result.failed_count = 1

\* C5: on return without a batch-level error the results array has count
\* slots, each written exactly once by the block of its index, none NULL.
C5_EverySlotFilledOnce ==
    (pc = "returned" /\ batch_result # NULL /\ batch_result.error = NULL) =>
        /\ batch_result.results # NULL
        /\ Len(Slots) = count
        /\ \A s \in 1..count : slotWrites[s] = <<s>> /\ Slots[s] # NULL

FailedSlots == {s \in 1..count : Slots[s] # NULL /\ Slots[s].error # NULL}

\* C6: on return failed_count is the number of slots whose result has its
\* error set.
C6_FailedCountExact ==
    (pc = "returned" /\ SlotsAllocated) =>
        batch_result.failed_count = Cardinality(FailedSlots)

\* C6 witness: a returned batch run with two permits in which both items
\* failed.
C6_TwoFailuresCounted ==
    /\ pc = "returned"
    /\ SlotsAllocated
    /\ thread_count(options) = 2
    /\ Cardinality(FailedSlots) = 2

\* the item list of a direct call is empty or null
EmptyOrNullItems ==
    \/ args.items = NULL
    \/ (api = "perform_batch_ocr_from_buffers" /\ args.lengths = NULL)
    \/ args.count = 0

PromiseReturned == bpc \in {"queued", "executing", "executed", "completed"}

\* the promise returned by an entry point is not settled before the
\* completion callback runs, and the callback settles it exactly once: it
\* is then either resolved with a result or rejected with an error
CallbackSettlesOnce ==
    PromiseReturned =>
        /\ bpc # "completed" =>
                (deferred.settles = 0 /\ deferred.state = "pending")
        /\ bpc = "completed" =>
                /\ deferred.settles = 1
                /\ \/ (deferred.state = "resolved"
                        /\ deferred.value.type \in {"object", "array"})
                   \/ (deferred.state = "rejected"
                        /\ deferred.value.type = "error")

\* C8: every promise handed to the caller is eventually settled, exactly
\* once.
C8_EventuallySettled ==
    PromiseReturned ~> (bpc = "completed" /\ deferred.settles = 1)

\* C9: a batch that completed with per-item failures only is resolved with
\* count entries in input order, and the entry of every failed item carries
\* that item's error.
C9_ItemErrorsDelivered ==
    (api \in BatchBridgeApis /\ bpc = "completed" /\ work.result # NULL
        /\ work.result.error = NULL /\ work.result.failed_count > 0) =>
        /\ deferred.state = "resolved"
        /\ deferred.value.type = "array"
        /\ Len(deferred.value.v) = work.count
        /\ \A k \in 1..work.count :
            LET slot == work.result.results.elems[k] IN
            (slot # NULL /\ slot.error # NULL) =>
                /\ "error" \in DOMAIN deferred.value.v[k].v
                /\ deferred.value.v[k].v.error = slot.error

\* the min_confidence of a direct perform_ocr call
CallMinConfidence ==
    IF args.options # NULL THEN args.options.min_confidence
    ELSE DEFAULT_OPTIONS.min_confidence

\* no candidate the request handler looks at reaches the threshold
NoCandidateQualifies ==
    \A r \in DOMAIN args.image.regions :
        \A c \in DOMAIN topCandidates(args.image.regions[r], TopCandidateCount) :
            args.image.regions[r].candidates[c].confidence < CallMinConfidence

\* the pass went through: the result was allocated, the capability ran and
\* the text could be copied
PassCompleted ==
    /\ ocr # NULL
    /\ args.image # NULL
    /\ ocr.env.malloc /\ ocr.env.request /\ ocr.env.strdup

\* C10: every candidate a recognition pass accepts has a confidence of at
\* least min_confidence; when no candidate qualifies the pass accepts
\* nothing and its result has no error, the empty text and confidence 0.
C10_ConfidenceFloor ==
    ocr # NULL =>
        /\ \A k \in DOMAIN ocr.accepted :
                ocr.accepted[k].candidate.confidence >= CallMinConfidence
        /\ (PassCompleted /\ NoCandidateQualifies) =>
                /\ ocr.result.error = NULL
                /\ ocr.result.text = Str(<<>>)
                /\ ocr.result.confidence = ZeroConfidence
                /\ ocr.accepted = <<>>

\* C10 witness: a pass over an image with regions in which no candidate
\* reaches the threshold.
C10_NothingQualifies ==
    /\ PassCompleted
    /\ Len(args.image.regions) > 0
    /\ NoCandidateQualifies
    /\ ocr.result.text = Str(<<>>)

\* the pass returned a result without an error
PassSucceeded == ocr # NULL /\ ocr.result # NULL /\ ocr.result.error = NULL

\* a confidence kept as a fraction is at least c
AtLeast(confidence, c) == confidence.num >= c * confidence.den

\* C11 as stated: the confidence of every successful result is at least the
\* min_confidence of the pass.
C11_ConfidenceAtLeastFloor ==
    PassSucceeded => AtLeast(ocr.result.confidence, CallMinConfidence)

\* C11 amended: the confidence of a successful result is at least
\* min_confidence when at least one candidate was accepted, and is 0 when
\* none was.
C11_ConfidenceAtLeastFloorIfAccepted ==
    PassSucceeded =>
        IF ocr.accepted # <<>>
        THEN AtLeast(ocr.result.confidence, CallMinConfidence)
        ELSE ocr.result.confidence = ZeroConfidence

\* C11 witness: a successful pass with a positive floor that accepted a
\* candidate in each of two regions.
C11_TwoAcceptedAboveFloor ==
    /\ PassSucceeded
    /\ CallMinConfidence = 70
    /\ Len(ocr.accepted) = 2

\* the ranks, among the candidates the handler looks at, of those that reach c
QualifyingRanks(region, c) ==
    {k \in 1..Len(region.candidates) :
        k <= TopCandidateCount /\ region.candidates[k].confidence >= c}

\* the regions in which some candidate qualifies, in traversal order
AcceptingRegions(regions, c) ==
    SelectSeq(regions, LAMBDA r : QualifyingRanks(r, c) # {})

\* the candidate accepted in a region: the best-ranked one that qualifies
AcceptedIn(region, c) ==
    region.candidates[CHOOSE k \in QualifyingRanks(region, c) :
                        \A j \in QualifyingRanks(region, c) : k <= j]

\* a single asynchronous call was resolved with a result
SingleCallResolved ==
    /\ api \in SingleBridgeApis
    /\ bpc = "completed"
    /\ deferred.state = "resolved"

ErrorExcludesText(r) ==
    r # NULL =>
        /\ r.error # NULL => r.text = NULL
        /\ r.error = NULL => (r.text # NULL /\ DOMAIN r.text = {"chars"})

CallOver == bpc \in {"thrown", "completed"}

\* C14: when a call is over every block allocated on its behalf has been
\* freed, and no block is ever freed while it is not live.
C14_EveryBlockReleasedOnce ==
    /\ \A b \in Blocks : heap[b] # "invalid free"
    /\ CallOver => \A b \in Blocks : heap[b] \in {"none", "freed"}

\* the wrapper has handed the call to the native recognizeBatch
NativeCalled == work # NULL /\ work.nativeCalls > 0

\* an item the wrapper must refuse
BadImagePath(item) ==
    \/ item.type # "string"
    \/ ~item.v.exists
    \/ toLowerCase(extname(item.v)) \notin validExts

\* the imagePaths argument is not an array, is empty or holds a bad item
BadImagePaths ==
    \/ args.imagePaths.type # "array"
    \/ Len(args.imagePaths.v) = 0
    \/ \E k \in DOMAIN args.imagePaths.v : BadImagePath(args.imagePaths.v[k])

\* C15: with an input that is not an array, is empty or holds an item that
\* is not a string, does not exist or has an extension outside the
\* allow-list, recognizeBatchFromPath never calls the native recognizeBatch,
\* and once it has run its checks the promise is rejected.
C15_BadPathsRejectedBeforeNative ==
    (api = "recognizeBatchFromPath" /\ BadImagePaths) =>
        /\ ~NativeCalled
        /\ bpc \in {"call", "rejected"}
        /\ bpc = "rejected" => deferred.state = "rejected"

\* C15 witness: rejected for an array whose first item is fine and whose
\* second item does not exist.
C15_SecondItemMissing ==
    /\ api = "recognizeBatchFromPath"
    /\ bpc = "rejected"
    /\ args.imagePaths.type = "array"
    /\ Len(args.imagePaths.v) = 2
    /\ ~BadImagePath(args.imagePaths.v[1])
    /\ args.imagePaths.v[2].type = "string"
    /\ ~args.imagePaths.v[2].v.exists
    /\ deferred.value.message = Msg("Image file does not exist")

\* the caller's options ask for maxThreads < 0 or batchSize < 1
BadBatchSizing ==
    \/ (Get(args.options, "maxThreads").type = "number"
        /\ Get(args.options, "maxThreads").v < 0)
    \/ (Get(args.options, "batchSize").type = "number"
        /\ Get(args.options, "batchSize").v < 1)

\* C16: with maxThreads < 0 or batchSize < 1 recognizeBatchFromPath never
\* gets past its option checks: the native recognizeBatch is never called.
C16_BadSizingRejectedBeforeNative ==
    (api = "recognizeBatchFromPath" /\ BadBatchSizing) =>
        /\ ~NativeCalled
        /\ bpc \in {"call", "paths valid", "rejected"}

\* the options handed to the native recognize are invalid: null, a
\* recognitionLevel other than 0 and 1, or a minConfidence outside 0.0 .. 1.0
InvalidNativeOptions ==
    \/ args.options.type = "null"
    \/ /\ args.options.type = "object"
       /\ \/ args.options.v.recognitionLevel.v \notin
                {OCR_RECOGNITION_LEVEL_FAST, OCR_RECOGNITION_LEVEL_ACCURATE}
          \/ args.options.v.minConfidence.v < 0
          \/ args.options.v.minConfidence.v > 100

\* C17: the native recognize, called on an existing valid image with invalid
\* options, never resolves its promise with a result.
C17_InvalidOptionsNeverResolve ==
    (api = "Recognize" /\ args.arg0.type = "string"
        /\ ~ResolveFails(args.arg0.v) /\ InvalidNativeOptions) =>
        ~(bpc = "completed" /\ deferred.state = "resolved")

CallTransitions ==
    { <<"call", "thrown">>, <<"call", "queued">>,
      <<"queued", "executing">>, <<"queued", "executed">>,
      <<"executing", "executed">>, <<"executed", "completed">> }

\* supporting lemma: the order of the steps of a call. The execute step
\* starts only from the queued work, the completion callback runs only after
\* the execute step has finished, a completed call keeps its position and its
\* settled promise, and the promise is settled by the completion callback and
\* by nothing before it.
CallStepsInOrder ==
    /\ [][(api \in BatchBridgeApis \cup SingleBridgeApis /\ bpc' # bpc) =>
            <<bpc, bpc'>> \in CallTransitions]_vars
    /\ [][(api \in BatchBridgeApis \cup SingleBridgeApis
           /\ bpc = "completed") =>
            (bpc' = "completed" /\ deferred' = deferred)]_vars
    /\ []((api \in BatchBridgeApis \cup SingleBridgeApis /\ PromiseReturned) =>
            deferred.settles = (IF bpc = "completed" THEN 1 ELSE 0))

\* C20: each asynchronous call follows Pending -> Running -> {Completed |
\* Failed}: the execute step runs at most once and only after the work was
\* queued, the completion callback runs exactly once and only after the
\* execute step has finished, a terminal state is never left, no step leads
\* back to an earlier position, and so every queued call reaches its
\* completion callback.
C20_CallStateMachine ==
    /\ CallStepsInOrder
    /\ (bpc = "queued") ~> (bpc = "completed")

RECURSIVE JoinedTexts(_, _)
JoinedTexts(regions, c) ==
    IF regions = <<>> THEN <<>>
    ELSE LET last == regions[Len(regions)]
             front == SubSeq(regions, 1, Len(regions) - 1)
         IN  IF front = <<>> THEN AcceptedIn(last, c).string
             ELSE JoinedTexts(front, c)
                  \o (IF last.boundingBox.y < NewlineThresholdY
                      THEN <<"\n">> ELSE <<" ">>)
                  \o AcceptedIn(last, c).string

\* the regions whose accepted candidate has a text of at least one character
RegionsWithText(regions, c) ==
    SelectSeq(AcceptingRegions(regions, c),
              LAMBDA r : AcceptedIn(r, c).string # <<>>)

\* C22 as stated: the text of a completed pass is the texts of the accepted
\* candidates in traversal order, with one separator before every accepted
\* region except the first.
C22_SeparatorBeforeEveryAcceptedRegion ==
    PassCompleted =>
        ocr.result.text =
            Str(JoinedTexts(AcceptingRegions(args.image.regions,
                                             CallMinConfidence),
                            CallMinConfidence))

\* C22 amended: the text of a completed pass is the non-empty texts of the
\* accepted candidates in traversal order, with one separator before every
\* region that has such a text except the first of them; an accepted
\* candidate whose text is empty adds neither text nor separator.
C22_SeparatorBeforeEveryNonEmptyText ==
    PassCompleted =>
        ocr.result.text =
            Str(JoinedTexts(RegionsWithText(args.image.regions,
                                            CallMinConfidence),
                            CallMinConfidence))

\* C22 witness: two accepted regions with a text each, the second one below
\* the threshold, joined by a newline.
C22_NewlineBetweenTwoTexts ==
    /\ PassCompleted
    /\ Len(ocr.accepted) = 2
    /\ args.image.regions[2].boundingBox.y < NewlineThresholdY
    /\ ocr.result.text = Str(<<"b", "\n", "a">>)

\* the sum of the confidences of the candidates accepted in the given regions
RECURSIVE SumOfConfidences(_, _)
SumOfConfidences(regions, c) ==
    IF regions = <<>> THEN 0
    ELSE AcceptedIn(Head(regions), c).confidence
         + SumOfConfidences(Tail(regions), c)

ReleasedOnceAfterPass(calls, owner) ==
    /\ calls # <<>>
    /\ Cardinality({k \in DOMAIN calls : calls[k].call = "CGImageRelease"}) = 1
    /\ calls[Len(calls)].call = "CGImageRelease"
    /\ \E k \in DOMAIN calls : calls[k].call = "perform_ocr"
    /\ \A k \in DOMAIN calls : calls[k].by = owner

ResolverChecks(f) ==
    << [name |-> "exists", passes |-> f.exists,
        message |-> Msg("File does not exist")],
       [name |-> "extension",
        passes |-> lowercaseString(f.ext) \in {"jpg", "jpeg", "png", "tiff", "gif"},
        message |-> Msg("Invalid image file extension")],
       [name |-> "read", passes |-> f.readable,
        message |-> Msg("Failed to read image data")],
       [name |-> "source", passes |-> f.container,
        message |-> Msg("Failed to create image source")],
       [name |-> "decode", passes |-> f.decodes,
        message |-> Msg("Failed to create CGImage from source")] >>

\* the rank of the first check the file violates, 0 when it passes them all
FirstViolated(f) ==
    LET violated == {k \in DOMAIN ResolverChecks(f) : ~ResolverChecks(f)[k].passes}
    IN  IF violated = {} THEN 0
        ELSE CHOOSE k \in violated : \A j \in violated : k <= j

\* C26: the path resolver makes its checks in a fixed order and stops at the
\* first one that fails: existence, then the extension, then reading and
\* decoding. On a failure it returns no image and the message of that check
\* alone, the execute step keeps that message and never calls perform_ocr,
\* and the completion callback rejects the promise with it.
C26_ResolverFailsAtFirstViolatedCheck ==
    (api = "Recognize" /\ bpc \in {"executed", "completed"}) =>
        LET f == work.item
            r == CreateCGImageFromPath(f)
            v == FirstViolated(f)
        IN  IF v = 0
            THEN /\ r.image # NULL
                 /\ r.error = NULL
                 /\ work.error_message = NULL
            ELSE /\ r.image = NULL
                 /\ r.error = ResolverChecks(f)[v].message
                 /\ r.checks = [k \in 1..v |-> ResolverChecks(f)[k].name]
                 /\ work.error_message = r.error
                 /\ work.result = NULL
                 /\ work.image_calls = <<>>
                 /\ bpc = "completed" =>
                        deferred = [state |-> "rejected", settles |-> 1,
                                    value |-> JsError(r.error)]

\* C26 witness: a call on a missing file whose extension is not supported
\* either was rejected with the not-found message.
C26_MissingFileWithBadExtension ==
    /\ api = "Recognize"
    /\ bpc = "completed"
    /\ ~work.item.exists
    /\ work.item.ext = "txt"
    /\ deferred.state = "rejected"
    /\ deferred.value = JsError(Msg("File does not exist"))

\* the permits of the gate are all accounted for: those still in the
\* semaphore and those held by blocks that have not yet signalled add up to
\* the size of the gate, and a returned call has them all back
PermitsAccountedFor ==
    /\ (pc \in {"dispatch", "join"} \/ (pc = "returned" /\ SlotsAllocated)) =>
            sema + Cardinality(ActiveWorkers) = thread_count(options)
    /\ (pc = "returned" /\ SlotsAllocated) => sema = thread_count(options)

\* supporting lemma: the permits are conserved in the batch calls on buffers
PermitsConservedForBuffers ==
    (api \in {"perform_batch_ocr_from_buffers", "RecognizeBatchFromBuffer"}) =>
        PermitsAccountedFor

\* C27: the permits of the admission gate are conserved: every block gives
\* its permit back exactly once before it finishes, on its success path and
\* on its resolve-failure path alike, so a batch call returns with as many
\* permits available as the gate had at the start, for paths and for buffers.
C27_PermitsConserved ==
    (api \in DirectApis \cup BatchBridgeApis) => PermitsAccountedFor

\* C28: the validation layers agree on extensions: the two wrapper functions
\* accept the same paths, and a path the wrapper accepted never fails in the
\* native resolver with the invalid-extension error.
C28_LayersAgreeOnExtensions ==
    pc = "layers" =>
        /\ bpc \in {"passed", "resolved"} =>
                /\ CheckSingleImagePath(args.imagePath) = NULL
                /\ CheckImagePath(args.imagePath) = NULL
        /\ bpc = "resolved" =>
                work.error # Msg("Invalid image file extension")

\* supporting lemma: whatever the size of the gate and the order in which
\* the blocks ran, a returned batch holds in every slot what processing that
\* item on its own gives (resolve, then perform_ocr unless the resolve
\* failed), and its failed_count is the number of slots with an error
OutcomeIsSequential ==
    (api \in DirectApis \cup BatchBridgeApis /\ pc = "returned"
     /\ SlotsAllocated) =>
        /\ \A s \in 1..count :
            \E env \in Environments :
                Slots[s] = ItemOutcome(image_paths.elems[s], options, env).result
        /\ batch_result.failed_count =
                Cardinality({s \in 1..count :
                                Slots[s] # NULL /\ Slots[s].error # NULL})

\* C29: the outcome of a batch call is the same for every size of the gate
\* and every scheduling of the blocks, and is the one of processing the items
\* one by one in input order: every call that starts dispatching returns,
\* and what it returns is that outcome.
C29_OutcomeIndependentOfGate ==
    /\ []OutcomeIsSequential
    /\ (pc \in {"dispatch", "join"}) ~> (pc = "returned")

====
